---- MODULE Spec2Model ----
(***************************************************************************)
(* Model of supabase/functions/har-to-jmeter/index.ts: one HTTP handler    *)
(* that turns a HAR document into a JMeter test plan by asking an LLM      *)
(* provider, extracting XML from the provider's text and returning a JSON  *)
(* envelope.                                                               *)
(*                                                                         *)
(* Strings that the code inspects are sequences of tokens; each token      *)
(* stands for the literal text it is written as.  No token is a substring  *)
(* of another one in a way the code's patterns could see: only Fence       *)
(* (three backticks) holds a backtick, only " " is whitespace, "<?xml"     *)
(* starts with "<" so the optional tag "xml" never matches inside it, and  *)
(* "</jmeterTestPlan>" does not contain "<jmeterTestPlan".                 *)
(*                                                                         *)
(* Invocations are modelled one at a time: the handler keeps no state of   *)
(* its own between awaits other than its locals, and invocations share     *)
(* only the environment and the module constant openAIApiKey.  The fields  *)
(* loadConfig, testPlanName, avgResponseTime and the error's stack are     *)
(* left out; no branch of the handler reads them.                          *)
(***************************************************************************)
EXTENDS Integers, Sequences, FiniteSets

\* ------------------------------------------------------------------ bounds
MaxTextLen == 2
MaxExtractLen == 6
MaxEntries == 1
MaxSummaryEntries == 3

\* ------------------------------------------------------------------ tokens
\* Fence stands for the three backticks that open and close a code block
Fence == "[fence]"
XmlTag == "xml"
Space == " "
Prolog == "<?xml"
OpenTag == "<jmeterTestPlan>"
CloseTag == "</jmeterTestPlan>"
Prose == "a"

Tokens == {Fence, XmlTag, Space, Prolog, OpenTag, CloseTag, Prose}

SeqsUpTo(S, n) == UNION {[1..k -> S] : k \in 0..n}

Min(S) == CHOOSE x \in S : \A y \in S : x <= y
Max(S) == CHOOSE x \in S : \A y \in S : x >= y

Positions(t, tok) == {i \in 1..Len(t) : t[i] = tok}

\* /\s/ : the only whitespace token
IsSpace(tok) == tok = Space

\* String.prototype.includes('<jmeterTestPlan')
IncludesOpenTag(t) == \E i \in 1..Len(t) : t[i] = OpenTag

NoMatch == [matched |-> FALSE, m0 |-> <<>>, m1 |-> <<>>]

\* mutant: the pattern without its second \s*, so the group keeps the whitespace
\* before the closing fence
FencedBlockMatchKeepsTrailingSpace(t) ==
  LET F == {i \in 1..Len(t) : t[i] = Fence} IN
  IF Cardinality(F) < 2 THEN NoMatch
  ELSE LET i == Min(F)
           j == Min(F \ {i})
           a0 == IF t[i + 1] = XmlTag THEN i + 2 ELSE i + 1
           a == Min({k \in a0..j : ~IsSpace(t[k])})
       IN [matched |-> TRUE, m0 |-> SubSeq(t, i, j), m1 |-> SubSeq(t, a, j - 1)]

\* aiText.match(/FENCE(?:xml)?\s*([\s\S]*?)\s*FENCE/), FENCE being three
\* backticks: the leftmost match starts at the first fence; (?:xml)? and the first \s* are greedy, the group is lazy, so
\* the match ends at the next fence and the group loses the whitespace around it.
FencedBlockMatch(t) ==
  LET F == Positions(t, Fence) IN
  IF Cardinality(F) < 2 THEN NoMatch
  ELSE LET i == Min(F)
           j == Min(F \ {i})
           a0 == IF t[i + 1] = XmlTag THEN i + 2 ELSE i + 1
           a == Min({k \in a0..j : ~IsSpace(t[k])})
           b == Max({a - 1} \cup {k \in a..(j - 1) : ~IsSpace(t[k])})
       IN [matched |-> TRUE, m0 |-> SubSeq(t, i, j), m1 |-> SubSeq(t, a, b)]

\* mutant: a lazy body, so the span ends at the first closing tag
PrologSpanMatchLazy(t) ==
  LET P == Positions(t, Prolog)
      C == Positions(t, CloseTag) IN
  IF P = {} \/ {c \in C : c > Min(P)} = {} THEN NoMatch
  ELSE [matched |-> TRUE, m0 |-> SubSeq(t, Min(P), Min({c \in C : c > Min(P)})),
        m1 |-> <<>>]

\* aiText.match(/<\?xml[\s\S]*<\/jmeterTestPlan>/): leftmost start, greedy body,
\* so from the first prolog to the last closing tag after it; no group.
PrologSpanMatch(t) ==
  LET P == Positions(t, Prolog)
      C == Positions(t, CloseTag) IN
  IF P = {} \/ {c \in C : c > Min(P)} = {} THEN NoMatch
  ELSE [matched |-> TRUE, m0 |-> SubSeq(t, Min(P), Max(C)), m1 |-> <<>>]

\* mutant: without the else branch jmxContent = aiText
ExtractXmlNoFallback(t) ==
  LET fenced == FencedBlockMatch(t)
      xmlMatch == IF fenced.matched THEN fenced ELSE PrologSpanMatch(t) IN
  IF xmlMatch.matched
  THEN IF xmlMatch.m1 # <<>> THEN xmlMatch.m1 ELSE xmlMatch.m0
  ELSE <<>>

\* const xmlMatch = aiText.match(fenced) || aiText.match(span);
\* jmxContent = xmlMatch ? (xmlMatch[1] || xmlMatch[0]) : aiText
ExtractXml(t) ==
  LET fenced == FencedBlockMatch(t)
      xmlMatch == IF fenced.matched THEN fenced ELSE PrologSpanMatch(t) IN
  IF xmlMatch.matched
  THEN IF xmlMatch.m1 # <<>> THEN xmlMatch.m1 ELSE xmlMatch.m0
  ELSE t

\* mutant: the test without the includes('<jmeterTestPlan') part
IsValidJmxNonEmptyOnly(jmx) == jmx # <<>>

\* !jmxContent || !jmxContent.includes('<jmeterTestPlan') is the failure test
IsValidJmx(jmx) == jmx # <<>> /\ IncludesOpenTag(jmx)

\* ------------------------------------------------------------- HAR summary
\* request URLs of the HAR entries; the last one is not an absolute URL
UrlLogin == "https://shop.example/login"
UrlCart == "https://shop.example/cart"
UrlCdn == "https://cdn.example/app.js"
UrlRelative == "/api/items"

InvalidUrl == "TypeError: Invalid URL"

\* new URL(url).hostname; the constructor throws on a string that is no URL
Hostname(url) ==
  CASE url = UrlLogin -> "shop.example"
    [] url = UrlCart -> "shop.example"
    [] url = UrlCdn -> "cdn.example"
    [] OTHER -> InvalidUrl

\* HarEntry, the fields the handler reads
EntryKinds ==
  { [method |-> "GET", url |-> UrlLogin],
    [method |-> "POST", url |-> UrlCart],
    [method |-> "GET", url |-> UrlCdn],
    [method |-> "GET", url |-> UrlRelative] }

\* mutant: [...entries.map(f)] without new Set
SetSpreadKeepAll(s) == s

RECURSIVE SetSpread(_)
\* [...new Set(s)]: the distinct elements in order of first occurrence
SetSpread(s) ==
  IF s = <<>> THEN <<>>
  ELSE LET init == SetSpread(SubSeq(s, 1, Len(s) - 1))
           last == s[Len(s)]
       IN IF \E i \in 1..Len(init) : init[i] = last THEN init ELSE Append(init, last)

\* entries.map(e => new URL(e.request.url).hostname)
Hostnames(es) == [i \in 1..Len(es) |-> Hostname(es[i].url)]

\* entries.map(e => e.request.method)
EntryMethods(es) == [i \in 1..Len(es) |-> es[i].method]

\* new URL(...) throws for some entry
SummaryThrows(es) == \E i \in 1..Len(es) : Hostname(es[i].url) = InvalidUrl

Summary(es) ==
  [ totalRequests |-> Len(es),
    uniqueDomains |-> SetSpread(Hostnames(es)),
    methodsUsed |-> SetSpread(EntryMethods(es)) ]

\* ---------------------------------------------------------------- responses
corsHeaders ==
  { <<"Access-Control-Allow-Origin", "*">>,
    <<"Access-Control-Allow-Headers", "authorization, x-client-info, apikey, content-type">> }

JsonHeaders == corsHeaders \cup { <<"Content-Type", "application/json">> }

\* new Response(null, { headers: corsHeaders })
PreflightResponse == [status |-> 200, headers |-> corsHeaders, body |-> [null |-> TRUE]]

\* mutant: the error response without ...corsHeaders
ErrorResponseNoCors(message) ==
  [status |-> 500, headers |-> { <<"Content-Type", "application/json">> },
   body |-> [error |-> message]]

\* the outer catch: status 500, { error: error.message }
ErrorResponse(message) ==
  [status |-> 500, headers |-> JsonHeaders, body |-> [error |-> message]]

ProviderLabel(provider) == IF provider = "google" THEN "Google AI Studio" ELSE "OpenAI"

SuccessResponse(jmx, provider, es) ==
  [ status |-> 200, headers |-> JsonHeaders,
    body |-> [ jmxContent |-> jmx,
               metadata |-> [provider |-> ProviderLabel(provider), generatedByAI |-> TRUE],
               summary |-> Summary(es) ] ]

\* error messages, as the parts they are concatenated from
MalformedInputMsg == <<"SyntaxError or TypeError while reading the request">>
GoogleKeyMsg == <<"Google AI API key not configured">>
OpenAIKeyMsg == <<"OpenAI API key not configured">>
NetworkMsg == <<"fetch failed">>
InvalidUrlMsg == <<InvalidUrl>>
GenerationMsg == <<"AI did not generate valid JMeter XML content">>
WrapMsg(inner) == <<"Failed to generate JMX file using AI: ">> \o inner
UpstreamMsg(provider, statusText) == WrapMsg(<<provider, " API error: ", statusText>>)
ProviderJsonMsg == WrapMsg(<<"SyntaxError or TypeError while reading the provider's JSON">>)

\* ------------------------------------------------------------ configuration
Secrets == {"OPENAI_API_KEY", "GOOGLE_AI_API_KEY"}

\* NoKey: the variable is unset (Deno.env.get gives undefined) or empty; both
\* are falsy in the handler's tests
NoKey == ""
KeyValues == {NoKey, "sk-live"}

\* ------------------------------------------------------------------- inputs
Undefined == "undefined"

Methods == {"OPTIONS", "POST"}

\* aiProvider as the request gives it; Undefined when the field is missing
ProviderInputs == {"google", "openai", "azure", Undefined}

Hars == SeqsUpTo(EntryKinds, MaxEntries)

\* Request bodies.  parses = FALSE: req.json() rejects or the body is not an
\* object.  harOk = FALSE: JSON.parse(harContent) throws, or log / entries is
\* missing, so that line 54, 55 or 57 throws.
RequestBodies ==
  { [parses |-> FALSE, aiProvider |-> Undefined, harOk |-> FALSE, entries |-> <<>>] }
  \cup { [parses |-> TRUE, aiProvider |-> p, harOk |-> FALSE, entries |-> <<>>] :
         p \in ProviderInputs }
  \cup { [parses |-> TRUE, aiProvider |-> p, harOk |-> TRUE, entries |-> es] :
         p \in ProviderInputs, es \in Hars }

\* What fetch settles with: a rejection, or a response with status and statusText
FetchOutcomes ==
  { [rejected |-> TRUE, status |-> 0, statusText |-> ""],
    [rejected |-> FALSE, status |-> 200, statusText |-> "OK"],
    [rejected |-> FALSE, status |-> 401, statusText |-> "Unauthorized"],
    [rejected |-> FALSE, status |-> 429, statusText |-> "Too Many Requests"] }

\* Provider response bodies.  "notjson": not JSON (or JSON null); "other": JSON
\* of neither provider's shape; "candidates": { candidates: [{ content: { parts:
\* [{ text }] } }] }; "choices": { choices: [{ message: { content } }] }.
ProviderBodies(n) ==
  { [kind |-> "notjson", text |-> <<>>], [kind |-> "other", text |-> <<>>] }
  \cup { [kind |-> k, text |-> t] : k \in {"candidates", "choices"}, t \in SeqsUpTo(Tokens, n) }

\* -------------------------------------------------------------------- state
VARIABLES
  env,                    \* Deno.env: secret name -> value
  openAIApiKey,           \* the module constant of line 4
  pc,                     \* where the invocation stands
  method,                 \* req.method
  bodyRead,               \* req.json() has been called
  aiProvider,             \* after defaulting; "" before the body is read
  entries,                \* harData.log.entries
  checked,                \* the key test of the branch: <<>> or one record
  calls,                  \* outbound fetch calls of this invocation
  jmxGenerationResponse,  \* <<>> or the provider's response
  errorText,              \* <<>> or the body read on a non-success status
  aiText,                 \* the provider's text, "" when the shape is missing
  jmxContent,
  validated,              \* the test of line 186 has been made
  response                \* <<>> or the response returned

vars == <<env, openAIApiKey, pc, method, bodyRead, aiProvider, entries, checked, calls,
          jmxGenerationResponse, errorText, aiText, jmxContent, validated, response>>

locals == <<method, bodyRead, aiProvider, entries, checked, calls,
            jmxGenerationResponse, errorText, aiText, jmxContent, validated, response>>

\* ------------------------------------------------------------------ handler
\* mutant: the verb compared in lower case
IsPreflightLowerCase(m) == m = "options"

\* req.method === 'OPTIONS'
IsPreflight(m) == m = "OPTIONS"

\* aiProvider = 'openai' in the destructuring: the default replaces undefined only
DefaultProvider(p) == IF p = Undefined THEN "openai" ELSE p

SecretOf(provider) == IF provider = "google" THEN "GOOGLE_AI_API_KEY" ELSE "OPENAI_API_KEY"

\* The key the branch tests and sends: Google's is read from the environment
\* in the branch, OpenAI's is the module constant
BranchKey(provider) == IF provider = "google" THEN env["GOOGLE_AI_API_KEY"] ELSE openAIApiKey

KeyMissingMsg(provider) == IF provider = "google" THEN GoogleKeyMsg ELSE OpenAIKeyMsg

Endpoint(provider) ==
  IF provider = "google" THEN "generativelanguage.googleapis.com" ELSE "api.openai.com"

\* mutant: ok without its upper bound
ResponseOkNoUpperBound(r) == r.status >= 200

\* jmxGenerationResponse.ok
ResponseOk(r) == r.status >= 200 /\ r.status <= 299

\* jmxData.candidates?.[0]?.content?.parts?.[0]?.text for Google,
\* jmxData.choices?.[0]?.message?.content otherwise; "" when it is missing
ShapeText(provider, body) ==
  IF provider = "google"
  THEN IF body.kind = "candidates" THEN body.text ELSE <<>>
  ELSE IF body.kind = "choices" THEN body.text ELSE <<>>

\* jmxContent after lines 156-179: '' unless the text is there and non-empty
Candidate(text) == IF text # <<>> THEN ExtractXml(text) ELSE <<>>

\* lines 185-207 and the outer catch
Respond(jmx, provider, es) ==
  IF ~IsValidJmx(jmx) THEN ErrorResponse(GenerationMsg)
  ELSE IF SummaryThrows(es) THEN ErrorResponse(InvalidUrlMsg)
  ELSE SuccessResponse(jmx, provider, es)

Init ==
  /\ env \in [Secrets -> KeyValues]
  /\ openAIApiKey = env["OPENAI_API_KEY"]
  /\ pc = "idle"
  /\ method = ""
  /\ bodyRead = FALSE
  /\ aiProvider = ""
  /\ entries = <<>>
  /\ checked = <<>>
  /\ calls = <<>>
  /\ jmxGenerationResponse = <<>>
  /\ errorText = <<>>
  /\ aiText = <<>>
  /\ jmxContent = <<>>
  /\ validated = FALSE
  /\ response = <<>>

\* The environment changes a secret (set, rotated or removed)
SetEnv(name, v) ==
  /\ v # env[name]
  /\ env' = [env EXCEPT ![name] = v]
  /\ UNCHANGED <<openAIApiKey, pc>>
  /\ UNCHANGED locals

\* A request arrives: lines 43-49 up to the await of req.json()
Receive(m) ==
  /\ pc = "idle"
  /\ method' = m
  /\ IF IsPreflight(m)
     THEN /\ response' = <<PreflightResponse>>
          /\ bodyRead' = FALSE
          /\ pc' = "done"
     ELSE /\ response' = response
          /\ bodyRead' = TRUE
          /\ pc' = "readingBody"
  /\ UNCHANGED <<env, openAIApiKey, aiProvider, entries, checked, calls,
                 jmxGenerationResponse, errorText, aiText, jmxContent, validated>>

\* req.json() settles: lines 49-143 up to the await of fetch
RequestBodyRead(b) ==
  /\ pc = "readingBody"
  /\ LET provider == DefaultProvider(b.aiProvider)
         key == BranchKey(provider)
     IN IF ~b.parses
        THEN /\ response' = <<ErrorResponse(MalformedInputMsg)>>
             /\ pc' = "done"
             /\ UNCHANGED <<aiProvider, entries, checked, calls>>
        ELSE IF ~b.harOk
        THEN /\ aiProvider' = provider
             /\ response' = <<ErrorResponse(MalformedInputMsg)>>
             /\ pc' = "done"
             /\ UNCHANGED <<entries, checked, calls>>
        ELSE /\ aiProvider' = provider
             /\ entries' = b.entries
             /\ checked' = << [secret |-> SecretOf(provider),
                               inEnv |-> env[SecretOf(provider)],
                               used |-> key] >>
             /\ IF key = NoKey
                THEN /\ response' = <<ErrorResponse(KeyMissingMsg(provider))>>
                     /\ pc' = "done"
                     /\ calls' = calls
                ELSE /\ calls' = Append(calls, [endpoint |-> Endpoint(provider), key |-> key])
                     /\ pc' = "fetching"
                     /\ response' = response
  /\ UNCHANGED <<env, openAIApiKey, method, bodyRead,
                 jmxGenerationResponse, errorText, aiText, jmxContent, validated>>

\* fetch settles: a rejection goes to the outer catch, a response to line 145
FetchSettles(o) ==
  /\ pc = "fetching"
  /\ IF o.rejected
     THEN /\ response' = <<ErrorResponse(NetworkMsg)>>
          /\ pc' = "done"
          /\ jmxGenerationResponse' = jmxGenerationResponse
     ELSE /\ jmxGenerationResponse' = <<o>>
          /\ pc' = "readingResponse"
          /\ response' = response
  /\ UNCHANGED <<env, openAIApiKey, method, bodyRead, aiProvider, entries, checked, calls,
                 errorText, aiText, jmxContent, validated>>

\* The provider's body is read (text() on a failure, json() otherwise): lines
\* 146-218
ProviderBodyRead(body) ==
  /\ pc = "readingResponse"
  /\ IF ~ResponseOk(jmxGenerationResponse[1])
     THEN /\ errorText' = <<body>>
          /\ response' =
               <<ErrorResponse(UpstreamMsg(aiProvider, jmxGenerationResponse[1].statusText))>>
          /\ UNCHANGED <<aiText, jmxContent, validated>>
     ELSE IF body.kind = "notjson"
     THEN /\ response' = <<ErrorResponse(ProviderJsonMsg)>>
          /\ UNCHANGED <<errorText, aiText, jmxContent, validated>>
     ELSE /\ aiText' = ShapeText(aiProvider, body)
          /\ jmxContent' = Candidate(ShapeText(aiProvider, body))
          /\ response' = <<Respond(Candidate(ShapeText(aiProvider, body)), aiProvider, entries)>>
          /\ validated' = TRUE
          /\ errorText' = errorText
  /\ pc' = "done"
  /\ UNCHANGED <<env, openAIApiKey, method, bodyRead, aiProvider, entries, checked, calls,
                 jmxGenerationResponse>>

\* The response is sent; the invocation's locals are gone
Finish ==
  /\ pc = "done"
  /\ pc' = "idle"
  /\ method' = ""
  /\ bodyRead' = FALSE
  /\ aiProvider' = ""
  /\ entries' = <<>>
  /\ checked' = <<>>
  /\ calls' = <<>>
  /\ jmxGenerationResponse' = <<>>
  /\ errorText' = <<>>
  /\ aiText' = <<>>
  /\ jmxContent' = <<>>
  /\ validated' = FALSE
  /\ response' = <<>>
  /\ UNCHANGED <<env, openAIApiKey>>

Next ==
  \/ \E name \in Secrets, v \in KeyValues : SetEnv(name, v)
  \/ \E m \in Methods : Receive(m)
  \/ \E b \in RequestBodies : RequestBodyRead(b)
  \/ \E o \in FetchOutcomes : FetchSettles(o)
  \/ \E body \in ProviderBodies(MaxTextLen) : ProviderBodyRead(body)
  \/ Finish

Spec == Init /\ [][Next]_vars

\* ------------------------------------------- the extraction on longer texts
\* An invocation whose provider has just answered 200 OK, for either provider
InitExtract ==
  /\ env = [s \in Secrets |-> "sk-live"]
  /\ openAIApiKey = "sk-live"
  /\ pc = "readingResponse"
  /\ method = "POST"
  /\ bodyRead = TRUE
  /\ aiProvider \in {"google", "openai"}
  /\ entries = <<>>
  /\ checked = << [secret |-> SecretOf(aiProvider), inEnv |-> "sk-live", used |-> "sk-live"] >>
  /\ calls = << [endpoint |-> Endpoint(aiProvider), key |-> "sk-live"] >>
  /\ jmxGenerationResponse = << [rejected |-> FALSE, status |-> 200, statusText |-> "OK"] >>
  /\ errorText = <<>>
  /\ aiText = <<>>
  /\ jmxContent = <<>>
  /\ validated = FALSE
  /\ response = <<>>

\* The provider's own response shape around a text
OwnShape(provider, t) ==
  [kind |-> IF provider = "google" THEN "candidates" ELSE "choices", text |-> t]

NextExtract ==
  /\ pc = "readingResponse"
  /\ \E k \in 0..MaxExtractLen : \E t \in [1..k -> Tokens] :
       ProviderBodyRead(OwnShape(aiProvider, t))

SpecExtract == InitExtract /\ [][NextExtract]_vars

\* ------------------------------------------- the summary on longer HAR files
\* An invocation whose provider has just answered 200 OK, for either provider
\* and any HAR document of up to MaxSummaryEntries entries
InitSummary ==
  /\ env = [s \in Secrets |-> "sk-live"]
  /\ openAIApiKey = "sk-live"
  /\ pc = "readingResponse"
  /\ method = "POST"
  /\ bodyRead = TRUE
  /\ aiProvider \in {"google", "openai"}
  /\ \E n \in 0..MaxSummaryEntries : entries \in [1..n -> EntryKinds]
  /\ checked = << [secret |-> SecretOf(aiProvider), inEnv |-> "sk-live", used |-> "sk-live"] >>
  /\ calls = << [endpoint |-> Endpoint(aiProvider), key |-> "sk-live"] >>
  /\ jmxGenerationResponse = << [rejected |-> FALSE, status |-> 200, statusText |-> "OK"] >>
  /\ errorText = <<>>
  /\ aiText = <<>>
  /\ jmxContent = <<>>
  /\ validated = FALSE
  /\ response = <<>>

NextSummary ==
  /\ pc = "readingResponse"
  /\ \E k \in 0..MaxTextLen : \E t \in [1..k -> Tokens] :
       ProviderBodyRead(OwnShape(aiProvider, t))

SpecSummary == InitSummary /\ [][NextSummary]_vars

\* =================================================================== claims
Returned == response # <<>>
HasJmx(r) == "jmxContent" \in DOMAIN r.body
HasError(r) == "error" \in DOMAIN r.body
IsNullBody(r) == "null" \in DOMAIN r.body

\* C1: a 200 response of the generation flow carries a non-empty jmxContent
\* that contains <jmeterTestPlan; every other candidate that reaches the
\* validation ends in HTTP 500 with 'AI did not generate valid JMeter XML
\* content' and no jmxContent.
C1_ValidationGate ==
  /\ (Returned /\ response[1].status = 200 /\ method # "OPTIONS")
       => /\ HasJmx(response[1])
          /\ response[1].body.jmxContent # <<>>
          /\ \E i \in 1..Len(response[1].body.jmxContent) :
               response[1].body.jmxContent[i] = "<jmeterTestPlan>"
  /\ (validated /\ ~(jmxContent # <<>> /\ \E i \in 1..Len(jmxContent) :
                                             jmxContent[i] = "<jmeterTestPlan>"))
       => /\ Returned
          /\ response[1].status = 500
          /\ HasError(response[1])
          /\ response[1].body.error = <<"AI did not generate valid JMeter XML content">>
          /\ ~HasJmx(response[1])

\* C1 witness: a non-empty candidate without the root element was rejected
C1_Witness ==
  /\ validated
  /\ jmxContent # <<>>
  /\ \A i \in 1..Len(jmxContent) : jmxContent[i] # "<jmeterTestPlan>"
  /\ Returned
  /\ response[1].status = 500

\* C3: a provider response with a non-success status ends the invocation with
\* HTTP 500, an error that carries the provider's status text, and no
\* jmxContent, whatever the provider's body holds.
C3_UpstreamFailure ==
  (pc = "done" /\ jmxGenerationResponse # <<>>
     /\ ~(jmxGenerationResponse[1].status \in 200..299))
    => /\ Returned
       /\ response[1].status = 500
       /\ HasError(response[1])
       /\ response[1].body.error =
            << "Failed to generate JMX file using AI: ", aiProvider, " API error: ",
               jmxGenerationResponse[1].statusText >>
       /\ ~HasJmx(response[1])

\* C3 witness: the failing provider's body was itself a well-shaped answer
\* holding a valid test plan
C3_Witness ==
  /\ pc = "done"
  /\ jmxGenerationResponse # <<>>
  /\ jmxGenerationResponse[1].status = 429
  /\ errorText # <<>>
  /\ errorText[1].kind = (IF aiProvider = "google" THEN "candidates" ELSE "choices")
  /\ \E i \in 1..Len(errorText[1].text) : errorText[1].text[i] = "<jmeterTestPlan>"
  /\ Returned

\* C4: an OPTIONS request is answered at once with an empty body and the
\* cross-origin headers; the body is not read, no key is tested and no
\* provider is called.
C4_Preflight ==
  method = "OPTIONS"
    => /\ pc = "done"
       /\ Returned
       /\ IsNullBody(response[1])
       /\ <<"Access-Control-Allow-Origin", "*">> \in response[1].headers
       /\ <<"Access-Control-Allow-Headers",
            "authorization, x-client-info, apikey, content-type">> \in response[1].headers
       /\ ~bodyRead
       /\ checked = <<>>
       /\ calls = <<>>

C4_Witness == method = "OPTIONS" /\ Returned

NoDuplicates(s) == \A i, j \in 1..Len(s) : s[i] = s[j] => i = j
Elements(s) == {s[i] : i \in 1..Len(s)}

\* C8: a successful response's summary has totalRequests = number of entries,
\* uniqueDomains = the hostnames of the entries' URLs, each once, and
\* methodsUsed = the methods of the entries, each once.
C8_Summary ==
  (Returned /\ HasJmx(response[1]))
    => /\ response[1].body.summary.totalRequests = Len(entries)
       /\ NoDuplicates(response[1].body.summary.uniqueDomains)
       /\ Elements(response[1].body.summary.uniqueDomains)
            = {Hostname(entries[i].url) : i \in 1..Len(entries)}
       /\ NoDuplicates(response[1].body.summary.methodsUsed)
       /\ Elements(response[1].body.summary.methodsUsed)
            = {entries[i].method : i \in 1..Len(entries)}

\* C8 witness: three entries, two of them on the same host
C8_Witness ==
  /\ Returned
  /\ HasJmx(response[1])
  /\ Len(entries) = 3
  /\ Len(response[1].body.summary.uniqueDomains) = 2
  /\ Len(response[1].body.summary.methodsUsed) = 2

HasCors(r) ==
  /\ <<"Access-Control-Allow-Origin", "*">> \in r.headers
  /\ <<"Access-Control-Allow-Headers",
       "authorization, x-client-info, apikey, content-type">> \in r.headers
HasJsonType(r) == <<"Content-Type", "application/json">> \in r.headers

\* C9 as claimed: every response, the preflight's included, carries the
\* cross-origin headers and Content-Type: application/json.
C9_EveryResponseJson == Returned => HasCors(response[1]) /\ HasJsonType(response[1])

\* C9 amended: every response carries the cross-origin headers, and every
\* response but the preflight's carries Content-Type: application/json.
C9_CorsAlwaysJsonUnlessPreflight ==
  Returned => /\ HasCors(response[1])
              /\ (method # "OPTIONS" => HasJsonType(response[1]))

C9_Witness == Returned /\ response[1].status = 500 /\ HasCors(response[1])

\* C10: the key an invocation tests and sends is the value the environment
\* holds for its provider's secret when the invocation tests it.
C10_KeyReadPerInvocation == checked # <<>> => checked[1].used = checked[1].inEnv

\* C2: when the environment holds no key for the selected provider at the
\* key test, no provider is called and the response is HTTP 500 with the
\* provider's configuration error.
C2_NoCallWithoutKey ==
  (checked # <<>> /\ checked[1].inEnv = "")
    => /\ calls = <<>>
       /\ Returned
       /\ response[1].status = 500
       /\ HasError(response[1])
       /\ response[1].body.error =
            (IF aiProvider = "google" THEN <<"Google AI API key not configured">>
                                      ELSE <<"OpenAI API key not configured">>)

\* The text holds a fenced block: an opening and a closing fence
HasFencedBlock(t) == \E i, j \in 1..Len(t) : i < j /\ t[i] = "[fence]" /\ t[j] = "[fence]"

\* The text holds a span from a prolog to a later closing tag
HasPrologSpan(t) == \E p, c \in 1..Len(t) : p < c /\ t[p] = "<?xml" /\ t[c] = "</jmeterTestPlan>"

\* t[i] opens a block tagged xml (the fences before it pair up) that t[j], the
\* first fence after it, closes, and the block wraps
\* <jmeterTestPlan> ... </jmeterTestPlan>
XmlBlock(t, i, j) ==
  /\ i + 1 < j
  /\ t[i] = "[fence]"
  /\ Cardinality({k \in 1..(i - 1) : t[k] = "[fence]"}) % 2 = 0
  /\ t[i + 1] = "xml"
  /\ t[j] = "[fence]"
  /\ \A k \in (i + 1)..(j - 1) : t[k] # "[fence]"
  /\ \E a, b \in (i + 2)..(j - 1) : a < b /\ t[a] = "<jmeterTestPlan>" /\ t[b] = "</jmeterTestPlan>"

\* C5 as claimed: with a block tagged xml around a test plan in the text,
\* jmxContent is exactly the text between the opening fence (with its tag) and
\* the first closing fence.
C5_ExactInterior ==
  pc = "done" =>
    \A i, j \in 1..Len(aiText) :
      XmlBlock(aiText, i, j) => jmxContent = SubSeq(aiText, i + 2, j - 1)

\* C5 amended: when the block is the first fenced block of the text,
\* jmxContent is the block's interior without the whitespace at its two ends,
\* whatever prolog-to-closing-tag span the text holds elsewhere.
C5_TrimmedInteriorOfFirstBlock ==
  pc = "done" =>
    \A i, j \in 1..Len(aiText) :
      (XmlBlock(aiText, i, j) /\ \A k \in 1..(i - 1) : aiText[k] # "[fence]")
        => \E a, b \in (i + 2)..(j - 1) :
             /\ a <= b
             /\ jmxContent = SubSeq(aiText, a, b)
             /\ aiText[a] # " "
             /\ aiText[b] # " "
             /\ \A k \in ((i + 2)..(a - 1)) \cup ((b + 1)..(j - 1)) : aiText[k] = " "

\* C5 witness: the first block of the text is tagged xml, its interior starts
\* with whitespace, and a prolog stands before the block
C5_Witness ==
  /\ pc = "done"
  /\ \E i, j \in 1..Len(aiText) :
       /\ XmlBlock(aiText, i, j)
       /\ \A k \in 1..(i - 1) : aiText[k] # "[fence]"
       /\ aiText[i + 2] = " "
  /\ jmxContent = <<"<jmeterTestPlan>", "</jmeterTestPlan>">>
  /\ Returned
  /\ response[1].status = 200

\* C6: without a fenced block, a text holding a span from <?xml to a closing
\* </jmeterTestPlan> gives that span as jmxContent, from the first prolog to
\* the last closing tag, without the text before and after it.
C6_PrologSpan ==
  (pc = "done" /\ ~HasFencedBlock(aiText)) =>
    \A p, c \in 1..Len(aiText) :
      ( /\ p < c
        /\ aiText[p] = "<?xml"
        /\ aiText[c] = "</jmeterTestPlan>"
        /\ \A k \in 1..(p - 1) : aiText[k] # "<?xml"
        /\ \A k \in (c + 1)..Len(aiText) : aiText[k] # "</jmeterTestPlan>" )
      => jmxContent = SubSeq(aiText, p, c)

\* C6 witness: prose before and after the span was dropped
C6_Witness ==
  /\ pc = "done"
  /\ ~HasFencedBlock(aiText)
  /\ Len(aiText) >= 4
  /\ aiText[1] = "a"
  /\ aiText[Len(aiText)] = "a"
  /\ jmxContent # <<>>
  /\ jmxContent[1] = "<?xml"
  /\ jmxContent[Len(jmxContent)] = "</jmeterTestPlan>"
  /\ Len(jmxContent) < Len(aiText)

ContainsOpenTag(t) == \E i \in 1..Len(t) : t[i] = "<jmeterTestPlan>"

\* C7 as claimed: with neither pattern in the text, jmxContent is the whole
\* text; the invocation fails with the generation error when the text lacks
\* <jmeterTestPlan and succeeds with jmxContent = the text when it has it.
C7_FallbackSucceeds ==
  (validated /\ ~HasFencedBlock(aiText) /\ ~HasPrologSpan(aiText)) =>
    /\ jmxContent = aiText
    /\ Returned
    /\ IF ContainsOpenTag(aiText)
       THEN /\ response[1].status = 200
            /\ HasJmx(response[1])
            /\ response[1].body.jmxContent = aiText
       ELSE /\ response[1].status = 500
            /\ HasError(response[1])
            /\ response[1].body.error = <<"AI did not generate valid JMeter XML content">>

\* C7 amended: the same, except that a text with <jmeterTestPlan passes the
\* validation and the invocation then succeeds only if every entry's URL can
\* be parsed; otherwise it ends in HTTP 500 with the URL error and no
\* jmxContent.
C7_FallbackThenSummary ==
  (validated /\ ~HasFencedBlock(aiText) /\ ~HasPrologSpan(aiText)) =>
    /\ jmxContent = aiText
    /\ Returned
    /\ IF ~ContainsOpenTag(aiText)
       THEN /\ response[1].status = 500
            /\ HasError(response[1])
            /\ response[1].body.error = <<"AI did not generate valid JMeter XML content">>
       ELSE IF \A i \in 1..Len(entries) : entries[i].url # "/api/items"
       THEN /\ response[1].status = 200
            /\ HasJmx(response[1])
            /\ response[1].body.jmxContent = aiText
       ELSE /\ response[1].status = 500
            /\ HasError(response[1])
            /\ response[1].body.error = <<"TypeError: Invalid URL">>
            /\ ~HasJmx(response[1])

\* C7 witness: a text of prose and a root element, returned whole
C7_Witness ==
  /\ validated
  /\ ~HasFencedBlock(aiText)
  /\ ~HasPrologSpan(aiText)
  /\ Len(aiText) = 2
  /\ aiText[1] = "a"
  /\ aiText[2] = "<jmeterTestPlan>"
  /\ Returned
  /\ response[1].status = 200
  /\ response[1].body.jmxContent = aiText

====
